---- MODULE Spec2Model ----
(***************************************************************************)
(* kb-crawler: crawl orchestration (internal/crawler/collector.go), the    *)
(* article store (internal/storage) and the job lifecycle driven by the    *)
(* API handlers (internal/api/handlers.go) and by the periodic scheduler   *)
(* (cmd/crawler/main.go).                                                  *)
(*                                                                         *)
(* Two specifications share the module:                                    *)
(*   SpecCrawl  one Crawler instance: MapCategoryStructure, Crawl, the     *)
(*              colly collector's fetch goroutines and the page handlers;  *)
(*   Spec       the process: job records, API handlers, scheduler ticks,   *)
(*              the run goroutines they start.                             *)
(* SpecCrawlFair and SpecFair add the scheduling of the goroutines that    *)
(* the termination properties rely on.                                     *)
(***************************************************************************)
EXTENDS Integers, Sequences, FiniteSets, TLC

(***************************************************************************)
(* Bounds of the model.                                                    *)
(***************************************************************************)
MaxUrls == 3      \* longest sitemap
MaxNav  == 2      \* most <li> items in the navigation document

(***************************************************************************)
(* Program constants.                                                      *)
(***************************************************************************)
Parallelism == 2  \* colly.LimitRule{Parallelism: 2}

DefaultCategory == "D"
Nil == "nil"

VARIABLES
  \* ---- one Crawler instance (SpecCrawl) ----
  config,      \* the Crawler's CrawlerConfig (its MapURL)
  pc,          \* position of the goroutine running MapCategoryStructure; Crawl
  ret,         \* what MapCategoryStructure / Crawl returned to the caller
  ctxDone,     \* the ctx handed to both calls has been cancelled
  mapper,      \* the mapping collector: navigation document, item, ancestor walk
  cs,          \* CategoryStructure.categories: path -> category id
  categories,  \* store table categories
  articles,    \* store table articles
  sitemap,     \* sitemap.URLs as returned by parseSitemap
  idx,         \* number of sitemap URLs the Crawl loop has gone through
  page,        \* per sitemap entry: the collector's request goroutine
  lastUpsert,  \* history: per URL, the columns of the last successful CreateArticle
  cancelPhase, \* history: where Crawl was when ctx was cancelled
  report,      \* what the caller made of the value Crawl returned
  timeoutPhase, \* history: where the run was when its time bound elapsed
  sitemapResp, \* history: what the sitemap request of parseSitemap met
  jobErrors,   \* config.Errors of the job as the caller of Crawl leaves it
  \* ---- the process (Spec) ----
  configs,     \* store table crawler_configs: job id -> row
  run,         \* the goroutines running a crawl, by slot
  sched,       \* the ticker goroutine of main, inside runAllCrawls or idle
  nextRun,     \* history: per job, the NextRun its last successful run computed
  createResp,  \* CreateCrawlerConfig's `config`, shared with its goroutine; its response
  maxConcurrentCrawls,  \* cfg.Crawler.MaxConcurrentCrawls, given to runAllCrawls
  now          \* time.Now()

crawlVars == <<config, report, pc, ret, ctxDone, mapper, cs, categories, articles, sitemap,
               idx, page, lastUpsert, cancelPhase,
               jobErrors,
               sitemapResp,
               timeoutPhase>>

procVars == <<configs, run, sched, now, nextRun, createResp, maxConcurrentCrawls>>

vars == <<crawlVars, procVars>>

(***************************************************************************)
(* Inputs: URLs, page contents, navigation documents.                      *)
(***************************************************************************)
Urls == {"u1", "u2"}

RECURSIVE SeqsUpTo(_, _)
SeqsUpTo(S, n) ==
  IF n = 0 THEN {<<>>}
  ELSE LET shorter == SeqsUpTo(S, n - 1)
       IN  shorter \cup {Append(s, e) : s \in {t \in shorter : Len(t) = n - 1}, e \in S}

\* the sitemaps tried: every prefix of a list in which a URL occurs twice
SitemapLocs == <<"u1", "u2", "u1", "u2", "u1">>

Sitemaps == {SubSeq(SitemapLocs, 1, n) : n \in 0..MaxUrls}

\* A fetched page: <title> text, markup of <article>/<body>, the keywords and
\* ProductFeatureTags meta values (already split at commas and trimmed), and,
\* for each element matching one of the content selectors "#mc-main-content",
\* "div[role='main']", "body" (in handler order), the breadcrumb texts found
\* below that element.
PageKinds ==
  { [title |-> "",   raw |-> "A", kw |-> <<"a">>, pft |-> <<>>,
     sel |-> << <<>> >>],
    [title |-> "T1", raw |-> "",  kw |-> <<"K">>, pft |-> <<>>,
     sel |-> << <<"x">> >>],
    [title |-> "T2", raw |-> "B", kw |-> <<"K">>, pft |-> <<"P">>,
     sel |-> << <<>>, <<"x">> >>] }

NoKind == [title |-> "", raw |-> "", kw |-> <<>>, pft |-> <<>>, sel |-> <<>>]

\* One <li> of nav.sidebarNav: its trimmed text and the texts of its <li>
\* ancestors, innermost first (the order Parent() meets them).
NavItems ==
  { [text |-> "",  anc |-> <<>>],
    [text |-> "x", anc |-> <<>>],
    [text |-> "y", anc |-> <<"x y">>] }

NavDocs == SeqsUpTo(NavItems, MaxNav)

\* CrawlerConfig.MapURL: unset, or the URL of a navigation page
MapURLs == {"", "https://kb/0HOME/Home.htm"}

\* DOM ancestors of an <li> that are not list items: ul, nav, body, html
PlainAncestors == 4


(***************************************************************************)
(* Pure helpers of the crawler package.                                    *)
(***************************************************************************)
\* strings.Join(parts, ":")
RECURSIVE JoinColon(_)
JoinColon(parts) ==
  IF Len(parts) = 0 THEN ""
  ELSE IF Len(parts) = 1 THEN parts[1]
  ELSE parts[1] \o ":" \o JoinColon(Tail(parts))

\* strings.ToLower on the tag tokens of the model
ToLower(t) == IF t = "K" THEN "k" ELSE IF t = "P" THEN "p" ELSE t

LowerAll(ts) == [k \in 1..Len(ts) |-> ToLower(ts[k])]

\* cleanHTML: html.Parse of the fragment always yields a full document, which
\* html.Render writes back with its html/head/body wrapper.
cleanHTML(content) == "<html><head></head><body>" \o content \o "</body></html>"

\* ParseHTMLContent: title, keywords then ProductFeatureTags lower-cased,
\* cleaned content.
ParseHTMLContent(k) ==
  [Title   |-> k.title,
   Tags    |-> LowerAll(k.kw) \o LowerAll(k.pft),
   Content |-> cleanHTML(k.raw)]

\* ExtractProductFeatureTags, run by the "head" handler: trimmed, case kept.
ExtractProductFeatureTags(k) == k.pft

(***************************************************************************)
(* CategoryStructure.                                                      *)
(***************************************************************************)
NewCategoryStructure == <<>>

AddCategory(m, path, id) ==
  [p \in DOMAIN m \cup {path} |-> IF p = path THEN id ELSE m[p]]

GetCategory(m, path) ==
  IF path \in DOMAIN m THEN [exists |-> TRUE, id |-> m[path]]
  ELSE [exists |-> FALSE, id |-> Nil]

(***************************************************************************)
(* Store: INSERT ... ON CONFLICT DO UPDATE.                                *)
(***************************************************************************)
CreateCategory_NotStored(rows, cat) == rows

\* categories: upsert keyed by id
CreateCategory(rows, cat) == {r \in rows : r.id # cat.id} \cup {cat}

\* the columns an article upsert overwrites on conflict
ArticleFields(a) ==
  [category_id |-> a.category_id, name |-> a.name, body |-> a.body,
   tags |-> a.tags, metadata |-> a.metadata]

CreateArticle_DoNothing(rows, art) ==
  IF \E r \in rows : r.url = art.url THEN rows ELSE rows \cup {art}

\* articles: upsert keyed by url; id (and created_at) of the existing row stay
CreateArticle(rows, art) ==
  IF \E r \in rows : r.url = art.url
  THEN {IF r.url = art.url THEN [art EXCEPT !.id = r.id] ELSE r : r \in rows}
  ELSE rows \cup {art}


(***************************************************************************)
(* goquery selections met by the ancestor walk of MapCategoryStructure.    *)
(* A selection is the position of its node in the <li>'s ancestor chain;   *)
(* EmptySel is the selection without nodes.  Parent() always returns a     *)
(* selection object, for EmptySel too: it never returns the nil pointer.   *)
(***************************************************************************)
EmptySel == 0
NilSel == -1

RECURSIVE LiChain(_)
LiChain(anc) ==
  IF Len(anc) = 0 THEN <<>>
  ELSE <<[li |-> FALSE, text |-> ""], [li |-> TRUE, text |-> anc[1]]>> \o LiChain(Tail(anc))

\* ancestors of the item, innermost first: (ul li)* ul nav body html
Chain(item) ==
  LiChain(item.anc) \o [k \in 1..PlainAncestors |-> [li |-> FALSE, text |-> ""]]

Parent(item, sel) ==
  IF sel = EmptySel THEN EmptySel
  ELSE IF sel < Len(Chain(item)) THEN sel + 1 ELSE EmptySel

\* el.DOM.Parent(): an <li> of the document always has a parent node
FirstParent(item) == IF Len(Chain(item)) > 0 THEN 1 ELSE EmptySel

\* parent.Is("li")
IsLi(item, sel) == sel # EmptySel /\ Chain(item)[sel].li

SelText(item, sel) == IF sel = EmptySel THEN "" ELSE Chain(item)[sel].text

(***************************************************************************)
(* Initial state of one Crawler: NewCrawler has run, nothing else.         *)
(***************************************************************************)
NoPage == [st |-> "none", kind |-> NoKind, todo |-> 0]

IdleMapper == [st |-> "idle", nav |-> <<>>, i |-> 0, parent |-> EmptySel,
               pathParts |-> <<>>]

NoPages == [i \in 1..MaxUrls |-> NoPage]

NoUpserts == [u \in Urls |-> {}]

RootId == <<"cat", 0>>

(***************************************************************************)
(* MapCategoryStructure.                                                   *)
(***************************************************************************)
MapCreateRoot_ContinueOnError ==
  /\ pc = "start"
  /\ \E ok \in (IF ctxDone THEN {FALSE} ELSE {TRUE, FALSE}) :
       IF ok
       THEN /\ categories' = CreateCategory(categories,
                 [id |-> RootId, name |-> DefaultCategory, parent |-> Nil])
            /\ cs' = AddCategory(cs, DefaultCategory, RootId)
            /\ pc' = "mapVisit"
            /\ ret' = ret
       ELSE /\ pc' = "mapVisit"
            /\ ret' = ret
            /\ UNCHANGED <<categories, cs>>
  /\ UNCHANGED procVars
  /\ UNCHANGED timeoutPhase
  /\ UNCHANGED sitemapResp
  /\ UNCHANGED jobErrors
  /\ UNCHANGED <<config, report, ctxDone, mapper, articles, sitemap, idx, page, lastUpsert,
                 cancelPhase>>

\* lines 128-144: persist the root category, register it
MapCreateRoot ==
  /\ pc = "start"
  /\ \E ok \in (IF ctxDone THEN {FALSE} ELSE {TRUE, FALSE}) :
       IF ok
       THEN /\ categories' = CreateCategory(categories,
                 [id |-> RootId, name |-> DefaultCategory, parent |-> Nil])
            /\ cs' = AddCategory(cs, DefaultCategory, RootId)
            /\ pc' = "mapVisit"
            /\ ret' = ret
       ELSE /\ pc' = "returned"
            /\ ret' = "mapRootErr"
            /\ UNCHANGED <<categories, cs>>
  /\ UNCHANGED procVars
  /\ UNCHANGED timeoutPhase
  /\ UNCHANGED sitemapResp
  /\ UNCHANGED jobErrors
  /\ UNCHANGED <<config, report, ctxDone, mapper, articles, sitemap, idx, page, lastUpsert,
                 cancelPhase>>

\* lines 220-225: mapper.Visit(MapURL) fetches the navigation page; the mapping
\* collector is synchronous, so the OnHTML handler runs inside Visit
MapVisit ==
  /\ pc = "mapVisit"
  /\ \/ /\ pc' = "returned"
        /\ ret' = "mapVisitErr"
        /\ UNCHANGED mapper
     \/ \E doc \in NavDocs :
          /\ config.MapURL # ""
          /\ mapper' = [IdleMapper EXCEPT !.st = "html", !.nav = doc, !.i = 1]
          /\ pc' = "mapWait"
          /\ ret' = ret
  /\ UNCHANGED procVars
  /\ UNCHANGED timeoutPhase
  /\ UNCHANGED sitemapResp
  /\ UNCHANGED jobErrors
  /\ UNCHANGED <<config, report, ctxDone, cs, categories, articles, sitemap, idx, page,
                 lastUpsert, cancelPhase>>

\* lines 173-184: the ForEach callback starts on the next <li>
MapItem ==
  /\ mapper.st = "html"
  /\ mapper.i <= Len(mapper.nav)
  /\ LET item == mapper.nav[mapper.i]
     IN  IF item.text = ""
         THEN mapper' = [mapper EXCEPT !.i = @ + 1]
         ELSE mapper' = [mapper EXCEPT !.st = "walk",
                                       !.pathParts = <<DefaultCategory>>,
                                       !.parent = FirstParent(item)]
  /\ UNCHANGED procVars
  /\ UNCHANGED timeoutPhase
  /\ UNCHANGED sitemapResp
  /\ UNCHANGED jobErrors
  /\ UNCHANGED <<config, report, pc, ret, ctxDone, cs, categories, articles, sitemap, idx, page,
                 lastUpsert, cancelPhase>>

\* lines 185-216: one test of the loop condition `parent != nil`; the loop body
\* when it holds, the rest of the callback when it does not
MapWalk ==
  /\ mapper.st = "walk"
  /\ LET item == mapper.nav[mapper.i]
         sel  == mapper.parent
     IN  IF sel # NilSel
         THEN /\ mapper' = [mapper EXCEPT
                   !.pathParts = IF IsLi(item, sel) /\ SelText(item, sel) # ""
                                 THEN <<SelText(item, sel)>> \o @ ELSE @,
                   !.parent = Parent(item, sel)]
              /\ UNCHANGED <<cs, categories>>
         ELSE LET categoryPath == JoinColon(Append(mapper.pathParts, item.text))
                  cat == [id |-> <<"cat", mapper.i>>, name |-> item.text,
                          parent |-> RootId]
              IN  /\ mapper' = [mapper EXCEPT !.st = "html", !.i = @ + 1]
                  /\ \E ok \in (IF ctxDone THEN {FALSE} ELSE {TRUE, FALSE}) :
                       IF ok
                       THEN /\ categories' = CreateCategory(categories, cat)
                            /\ cs' = AddCategory(cs, categoryPath, cat.id)
                       ELSE UNCHANGED <<cs, categories>>
  /\ UNCHANGED procVars
  /\ UNCHANGED timeoutPhase
  /\ UNCHANGED sitemapResp
  /\ UNCHANGED jobErrors
  /\ UNCHANGED <<config, report, pc, ret, ctxDone, articles, sitemap, idx, page, lastUpsert,
                 cancelPhase>>

\* lines 222-231: Visit returns once the handler has returned; return cs
MapReturn ==
  /\ pc = "mapWait"
  /\ mapper.st = "html"
  /\ mapper.i > Len(mapper.nav)
  /\ pc' = "crawl"
  /\ mapper' = [IdleMapper EXCEPT !.st = "done"]
  /\ UNCHANGED procVars
  /\ UNCHANGED timeoutPhase
  /\ UNCHANGED sitemapResp
  /\ UNCHANGED jobErrors
  /\ UNCHANGED <<config, report, ret, ctxDone, cs, categories, articles, sitemap, idx, page,
                 lastUpsert, cancelPhase>>


(***************************************************************************)
(* Crawl and the content collector (colly, Async(true), Parallelism 2).    *)
(***************************************************************************)
Entries == 1..Len(sitemap)

\* requests holding a slot of the limit rule
InFlight == {i \in 1..MaxUrls : page[i].st = "fetching"}

\* request goroutines that have not called wg.Done yet
Outstanding == {i \in 1..MaxUrls : page[i].st \in {"queued", "fetching", "handling"}}

StatusOK == 200

\* what http.Get(SitemapURL) can give: a transport error, or a response with
\* a status and a body that is a well-formed urlset or not
SitemapResponses ==
  {[kind |-> "transport", err |-> TRUE, status |-> 0, wellFormed |-> FALSE,
    urls |-> <<>>],
   [kind |-> "status", err |-> FALSE, status |-> 404, wellFormed |-> TRUE,
    urls |-> SubSeq(SitemapLocs, 1, 1)],
   [kind |-> "malformed", err |-> FALSE, status |-> StatusOK,
    wellFormed |-> FALSE, urls |-> <<>>]}
  \cup {[kind |-> "ok", err |-> FALSE, status |-> StatusOK, wellFormed |-> TRUE,
          urls |-> sm] : sm \in Sitemaps}

parseSitemap_IgnoreStatus(resp) ==
  IF resp.err \/ ~resp.wellFormed
  THEN [err |-> "sitemapErr", urls |-> <<>>]
  ELSE [err |-> "nil", urls |-> resp.urls]

\* lines 465-487: http.Get, the status test, io.ReadAll, xml.Unmarshal
parseSitemap(resp) ==
  IF resp.err THEN [err |-> "sitemapErr", urls |-> <<>>]
  ELSE IF resp.status # StatusOK THEN [err |-> "sitemapErr", urls |-> <<>>]
  ELSE IF ~resp.wellFormed THEN [err |-> "sitemapErr", urls |-> <<>>]
  ELSE [err |-> "nil", urls |-> resp.urls]

\* lines 235-281: setupHandlers, then parseSitemap
CrawlParseSitemap ==
  /\ pc = "crawl"
  /\ \E resp \in SitemapResponses :
       /\ sitemapResp' = resp.kind
       /\ IF parseSitemap(resp).err # "nil"
          THEN /\ pc' = "returned"
               /\ ret' = parseSitemap(resp).err
               /\ UNCHANGED sitemap
          ELSE /\ sitemap' = parseSitemap(resp).urls
               /\ pc' = "loop"
               /\ ret' = ret
  /\ UNCHANGED procVars
  /\ UNCHANGED timeoutPhase
  /\ UNCHANGED jobErrors
  /\ UNCHANGED <<config, report, ctxDone, mapper, cs, categories, articles, idx, page,
                 lastUpsert, cancelPhase>>

CrawlLoop_AbortOnVisitError ==
  /\ pc = "loop"
  /\ idx < Len(sitemap)
  /\ IF ctxDone
     THEN /\ pc' = "returned"
          /\ ret' = "ctxErr"
          /\ UNCHANGED <<idx, page>>
     ELSE \/ /\ page' = [page EXCEPT ![idx + 1].st = "queued"]
             /\ idx' = idx + 1
             /\ UNCHANGED <<pc, ret>>
          \/ /\ page' = [page EXCEPT ![idx + 1].st = "rejected"]
             /\ idx' = idx + 1
             /\ pc' = "returned"
             /\ ret' = "visitErr"
  /\ UNCHANGED procVars
  /\ UNCHANGED timeoutPhase
  /\ UNCHANGED sitemapResp
  /\ UNCHANGED jobErrors
  /\ UNCHANGED <<config, report, ctxDone, mapper, cs, categories, articles, sitemap,
                 lastUpsert, cancelPhase>>

\* lines 284-295: one iteration of the loop over sitemap.URLs.  Visit either
\* starts the request goroutine (which then waits for a slot) or returns an
\* error, which is logged.
CrawlLoop ==
  /\ pc = "loop"
  /\ idx < Len(sitemap)
  /\ IF ctxDone
     THEN /\ pc' = "returned"
          /\ ret' = "ctxErr"
          /\ UNCHANGED <<idx, page>>
     ELSE /\ \E st \in {"queued", "rejected"} :
               page' = [page EXCEPT ![idx + 1].st = st]
          /\ idx' = idx + 1
          /\ UNCHANGED <<pc, ret>>
  /\ UNCHANGED procVars
  /\ UNCHANGED timeoutPhase
  /\ UNCHANGED sitemapResp
  /\ UNCHANGED jobErrors
  /\ UNCHANGED <<config, report, ctxDone, mapper, cs, categories, articles, sitemap,
                 lastUpsert, cancelPhase>>

CrawlWait_NoWait ==
  /\ pc = "loop"
  /\ idx = Len(sitemap)
  /\ pc' = "returned"
  /\ ret' = "nil"
  /\ UNCHANGED procVars
  /\ UNCHANGED timeoutPhase
  /\ UNCHANGED sitemapResp
  /\ UNCHANGED jobErrors
  /\ UNCHANGED <<config, report, ctxDone, mapper, cs, categories, articles, sitemap, idx, page,
                 lastUpsert, cancelPhase>>

\* lines 297-301: the loop is over, collector.Wait() has returned
CrawlWait ==
  /\ pc = "loop"
  /\ idx = Len(sitemap)
  /\ Outstanding = {}
  /\ pc' = "returned"
  /\ ret' = "nil"
  /\ UNCHANGED procVars
  /\ UNCHANGED timeoutPhase
  /\ UNCHANGED sitemapResp
  /\ UNCHANGED jobErrors
  /\ UNCHANGED <<config, report, ctxDone, mapper, cs, categories, articles, sitemap, idx, page,
                 lastUpsert, cancelPhase>>

StartFetch_Unlimited(i) ==
  /\ page[i].st = "queued"
  /\ page' = [page EXCEPT ![i].st = "fetching"]
  /\ UNCHANGED procVars
  /\ UNCHANGED timeoutPhase
  /\ UNCHANGED sitemapResp
  /\ UNCHANGED jobErrors
  /\ UNCHANGED <<config, report, pc, ret, ctxDone, mapper, cs, categories, articles, sitemap,
                 idx, lastUpsert, cancelPhase>>

\* the request goroutine takes a slot of the limit rule (lines 111-116)
StartFetch(i) ==
  /\ page[i].st = "queued"
  /\ Cardinality(InFlight) < Parallelism
  /\ page' = [page EXCEPT ![i].st = "fetching"]
  /\ UNCHANGED procVars
  /\ UNCHANGED timeoutPhase
  /\ UNCHANGED sitemapResp
  /\ UNCHANGED jobErrors
  /\ UNCHANGED <<config, report, pc, ret, ctxDone, mapper, cs, categories, articles, sitemap,
                 idx, lastUpsert, cancelPhase>>

\* the request ends and gives its slot back: an error (OnError, lines 266-268)
\* or a response, whose matching OnHTML handlers are then run in order
FetchDone(i) ==
  /\ page[i].st = "fetching"
  /\ \/ page' = [page EXCEPT ![i].st = "failed"]
     \/ \E k \in PageKinds :
          page' = [page EXCEPT ![i] = [st |-> "handling", kind |-> k,
                                       todo |-> Len(k.sel)]]
  /\ UNCHANGED procVars
  /\ UNCHANGED timeoutPhase
  /\ UNCHANGED sitemapResp
  /\ UNCHANGED jobErrors
  /\ UNCHANGED <<config, report, pc, ret, ctxDone, mapper, cs, categories, articles, sitemap,
                 idx, lastUpsert, cancelPhase>>

\* lines 328-350: tags put into the request context by the "head" handler,
\* replaced by the parsed tags only when there are none
HandlerTags(k) ==
  LET tags == ExtractProductFeatureTags(k)
      parsedContent == ParseHTMLContent(k)
  IN  IF Len(parsedContent.Tags) > 0 /\ Len(tags) = 0
      THEN parsedContent.Tags ELSE tags

ResolveCategory_Unregistered(m, categoryString) ==
  IF GetCategory(m, categoryString).exists
  THEN GetCategory(m, categoryString)
  ELSE [exists |-> TRUE, id |-> <<"cat", MaxNav + 1>>]

\* lines 376-385: the category of the page, the default category otherwise
ResolveCategory(m, categoryString) ==
  IF GetCategory(m, categoryString).exists
  THEN GetCategory(m, categoryString)
  ELSE GetCategory(m, DefaultCategory)

\* lines 352-374: the category path of this invocation of the handler
CategoryString(i) ==
  LET k == page[i].kind
      crumbs == k.sel[Len(k.sel) - page[i].todo + 1]
  IN  JoinColon(<<DefaultCategory>> \o crumbs)

\* lines 393-418: the article built by this invocation; its id stands for
\* the uuid.New() of page task i
PageArticle(i) ==
  LET k == page[i].kind
      parsedContent == ParseHTMLContent(k)
  IN  [id |-> i,
       category_id |-> ResolveCategory(cs, CategoryString(i)).id,
       name |-> parsedContent.Title,
       body |-> parsedContent.Content,
       url |-> sitemap[i],
       tags |-> HandlerTags(k),
       metadata |-> [fullCategoryString |-> CategoryString(i),
                     url |-> sitemap[i],
                     metaTags |-> HandlerTags(k)]]

\* lines 378-391: the handler gets as far as CreateArticle
PageComplete(i) ==
  /\ ResolveCategory(cs, CategoryString(i)).exists
  /\ ParseHTMLContent(page[i].kind).Title # ""
  /\ ParseHTMLContent(page[i].kind).Content # ""

HandlePage_CacheFallback(i) ==
  /\ page[i].st = "handling"
  /\ \E stored \in BOOLEAN :
       LET saved == PageComplete(i) /\ stored
       IN  /\ articles' = IF saved THEN CreateArticle(articles, PageArticle(i))
                          ELSE articles
           /\ lastUpsert' = IF saved
                            THEN [lastUpsert EXCEPT ![sitemap[i]] =
                                    {ArticleFields(PageArticle(i))}]
                            ELSE lastUpsert
  /\ cs' = IF GetCategory(cs, CategoryString(i)).exists THEN cs
           ELSE AddCategory(cs, CategoryString(i),
                            ResolveCategory(cs, CategoryString(i)).id)
  /\ page' = [page EXCEPT ![i] = IF page[i].todo = 1
                                 THEN [st |-> "done", kind |-> NoKind, todo |-> 0]
                                 ELSE [@ EXCEPT !.todo = @ - 1]]
  /\ UNCHANGED procVars
  /\ UNCHANGED timeoutPhase
  /\ UNCHANGED sitemapResp
  /\ UNCHANGED jobErrors
  /\ UNCHANGED <<config, report, pc, ret, ctxDone, mapper, categories, sitemap,
                 idx, cancelPhase>>

\* lines 325-427: one invocation of the content handler on page i; CreateArticle
\* may fail in the store, which is logged
HandlePage(i) ==
  /\ page[i].st = "handling"
  /\ \E stored \in BOOLEAN :
       LET saved == PageComplete(i) /\ stored
       IN  /\ articles' = IF saved THEN CreateArticle(articles, PageArticle(i))
                          ELSE articles
           /\ lastUpsert' = IF saved
                            THEN [lastUpsert EXCEPT ![sitemap[i]] =
                                    {ArticleFields(PageArticle(i))}]
                            ELSE lastUpsert
  /\ page' = [page EXCEPT ![i] = IF page[i].todo = 1
                                 THEN [st |-> "done", kind |-> NoKind, todo |-> 0]
                                 ELSE [@ EXCEPT !.todo = @ - 1]]
  /\ UNCHANGED procVars
  /\ UNCHANGED timeoutPhase
  /\ UNCHANGED sitemapResp
  /\ UNCHANGED jobErrors
  /\ UNCHANGED <<config, report, pc, ret, ctxDone, mapper, cs, categories,
                 sitemap, idx, cancelPhase>>

\* the ctx handed to MapCategoryStructure and Crawl is cancelled
Cancel ==
  /\ ~ctxDone
  /\ pc \notin {"returned", "reported"}
  /\ ctxDone' = TRUE
  /\ cancelPhase' =
       IF pc # "loop" THEN "beforeCrawl"
       ELSE IF idx < Len(sitemap) THEN "dispatching"
       ELSE IF Outstanding # {} THEN "afterDispatch"
       ELSE "allFinished"
  /\ UNCHANGED procVars
  /\ UNCHANGED timeoutPhase
  /\ UNCHANGED sitemapResp
  /\ UNCHANGED jobErrors
  /\ UNCHANGED <<config, report, pc, ret, mapper, cs, categories, articles, sitemap, idx, page,
                 lastUpsert>>

\* The time bound of a run elapses while the run is still going on.  Crawl
\* (lines 235-302) starts no timer and derives no context with a deadline:
\* its loop selects on ctx.Done() only, so nothing in the run reacts.
Deadline ==
  /\ timeoutPhase = "none"
  /\ pc \notin {"returned", "reported"}
  /\ timeoutPhase' =
       IF pc # "loop" THEN "beforeCrawl"
       ELSE IF idx < Len(sitemap) THEN "dispatching"
       ELSE "afterDispatch"
  /\ UNCHANGED procVars
  /\ UNCHANGED <<config, report, jobErrors, sitemapResp, pc, ret, ctxDone, mapper, cs,
                 categories, articles, sitemap, idx, page, lastUpsert, cancelPhase>>

\* the caller's test of the returned error: handlers.go runCrawler and
\* main.go runAllCrawls both take every non-nil error for a failed crawl
CallerOutcome(r) == IF r = "nil" THEN "completed" ELSE "failed"

\* handlers.go runCrawler 391-394: the error Crawl returned is the only thing
\* appended to config.Errors; what the collector's callbacks met is logged
CallerErrors(errors, r) == IF r = "nil" THEN errors ELSE Append(errors, r)

CallerReport ==
  /\ pc = "returned"
  /\ pc' = "reported"
  /\ report' = CallerOutcome(ret)
  /\ jobErrors' = CallerErrors(jobErrors, ret)
  /\ UNCHANGED procVars
  /\ UNCHANGED timeoutPhase
  /\ UNCHANGED sitemapResp
  /\ UNCHANGED <<config, ret, ctxDone, mapper, cs, categories, articles,
                 sitemap, idx, page, lastUpsert, cancelPhase>>

NextCrawl ==
  \/ MapCreateRoot
  \/ MapVisit
  \/ MapItem
  \/ MapWalk
  \/ MapReturn
  \/ CrawlParseSitemap
  \/ CrawlLoop
  \/ CrawlWait
  \/ \E i \in 1..MaxUrls : StartFetch(i)
  \/ \E i \in 1..MaxUrls : FetchDone(i)
  \/ \E i \in 1..MaxUrls : HandlePage(i)
  \/ Cancel
  \/ Deadline
  \/ CallerReport

(***************************************************************************)
(* Properties of one Crawler (checked under SpecCrawl).                    *)
(***************************************************************************)
Returned == pc \in {"returned", "reported"}

\* C1: during a crawl, the number of content-page fetches in flight at the
\* same time never exceeds the parallelism of the limit rule (2).
C1_InFlightAtMostParallelism == Cardinality(InFlight) <= 2

\* the limit binds: two fetches in flight, a third request waits for a slot
C1_Witness ==
  /\ Cardinality(InFlight) = 2
  /\ \E i \in 1..MaxUrls : page[i].st = "queued"

\* C3: every write to the category index happens during mapping, before the
\* first content page is dispatched; the index never changes afterwards.
C3_IndexWrittenOnlyBeforeDispatch ==
  [][cs' # cs => /\ pc \in {"start", "mapVisit", "mapWait"}
                 /\ \A i \in 1..MaxUrls : page[i].st = "none"]_vars

\* the root was registered during mapping and a page handler is reading the
\* index while other pages are still being fetched
C3_Witness ==
  /\ DefaultCategory \in DOMAIN cs
  /\ \E i, j \in 1..MaxUrls : page[i].st = "handling" /\ page[j].st = "fetching"

\* C4: after any sequence of article upserts the store holds at most one
\* article per URL, and its category, title, body, tags and metadata are those
\* of the last successful upsert for that URL.
C4_OneArticlePerUrlLastWins ==
  \A u \in Urls :
    LET rows == {a \in articles : a.url = u}
    IN  /\ Cardinality(rows) <= 1
        /\ {ArticleFields(a) : a \in rows} = lastUpsert[u]

\* the row inserted by page task i now carries another page task's body,
\* written while task i is still running its handlers
C4_Witness ==
  \E a \in articles, i \in 1..MaxUrls :
    /\ a.id = i
    /\ page[i].st = "handling"
    /\ a.body # ParseHTMLContent(page[i].kind).Content

\* C5: if ctx is cancelled after every sitemap URL has been dispatched but
\* before every fetch has finished, Crawl reports cancellation, not completion.
C5_CancelAfterDispatchIsReported ==
  (Returned /\ cancelPhase = "afterDispatch") => ret = "ctxErr"

\* C6: once ctx is cancelled, no request that was not fetching already starts
\* to fetch, requests waiting for a slot included.
C6_NoFetchStartsAfterCancel ==
  [][ctxDone => \A i \in 1..MaxUrls :
                  page'[i].st = "fetching" => page[i].st = "fetching"]_vars

\* C7: a run ended by cancellation is not taken for a failed crawl by its
\* caller.
C7_CancelledIsNotFailed ==
  (pc = "reported" /\ ret = "ctxErr") => report # "failed"

\* C10: when mapping and the sitemap fetch succeed and ctx is not cancelled,
\* Crawl goes through every sitemap URL and returns nil, whatever happens to
\* the pages.
C10_PageFailuresDoNotFailTheRun ==
  (Returned /\ ~ctxDone /\ ret \notin {"mapRootErr", "mapVisitErr", "sitemapErr"})
    => /\ ret = "nil"
       /\ idx = Len(sitemap)
       /\ \A i \in Entries : page[i].st \in {"rejected", "failed", "done"}

\* Crawl returned nil although a Visit was refused and no article was stored
C10_Witness ==
  /\ Returned /\ ret = "nil" /\ ~ctxDone
  /\ Len(sitemap) >= 2
  /\ \E i \in Entries : page[i].st = "rejected"
  /\ articles = {}

\* a page of the run failed: Visit refused it or its fetch ended in OnError
FailedPages == {i \in Entries : page[i].st \in {"rejected", "failed"}}

\* C11: after a run in which at least one page failed and no fatal error
\* occurred, the job's error list has at least one entry for the failed page.
C11_PageFailureInErrorList ==
  (pc = "reported" /\ report = "completed" /\ FailedPages # {})
    => Len(jobErrors) > 0

\* C12: if the sitemap fetch fails in transport or returns a non-2xx status,
\* or the sitemap XML is malformed, then no content page is fetched, no
\* article is upserted, and the run reports failure.
C12_SitemapFailureIsFatal ==
  sitemapResp \in {"transport", "status", "malformed"}
    => /\ \A i \in 1..MaxUrls : page[i].st = "none"
       /\ articles = {}
       /\ Returned /\ ret = "sitemapErr"
       /\ pc = "reported" => report = "failed"

\* a 404 answer carrying a well-formed urlset was reported as a failed run
C12_Witness ==
  /\ sitemapResp = "status"
  /\ pc = "reported" /\ report = "failed"

\* MapCategoryStructure is past its CreateCategory call for the root and the
\* store holds no root row: persisting the root category failed
RootPersistFailed == pc # "start" /\ \A c \in categories : c.id # RootId

\* C13: if persisting the root category fails, MapCategoryStructure returns an
\* error without fetching the navigation page, no category is registered in
\* an index, no content page is fetched, and the run fails.
C13_RootFailureIsFatal ==
  RootPersistFailed
    => /\ Returned /\ ret = "mapRootErr"
       /\ mapper = IdleMapper
       /\ cs = NewCategoryStructure
       /\ \A i \in 1..MaxUrls : page[i].st = "none"
       /\ pc = "reported" => report = "failed"

\* the store refused the root category and the caller has the failed run
C13_Witness ==
  /\ RootPersistFailed
  /\ ~ctxDone
  /\ pc = "reported" /\ report = "failed"

\* C14: a page whose derived category path is not a key of the index has its
\* article stored under the category registered for the default root path,
\* and the run is not failed by it.
C14_UnknownPathFallsBackToRoot ==
  /\ \A a \in articles :
       a.metadata.fullCategoryString \notin DOMAIN cs
         => /\ DefaultCategory \in DOMAIN cs
            /\ a.category_id = cs[DefaultCategory]
  /\ (Returned /\ ~ctxDone
        /\ \E a \in articles : a.metadata.fullCategoryString \notin DOMAIN cs)
       => ret = "nil"

\* an article whose breadcrumb path is not in the index sits under the root
\* and Crawl has returned nil
C14_Witness ==
  /\ pc = "reported" /\ report = "completed"
  /\ \E a \in articles :
       /\ a.metadata.fullCategoryString \notin DOMAIN cs
       /\ a.category_id = RootId

\* C15: no article is ever upserted for a page that lacks a title or whose
\* body has no content left after sanitization.
C15_NoIncompleteArticle ==
  \A a \in articles : a.name # "" /\ a.body # cleanHTML("")

\* C18: when the run-level time bound elapses before the run is finished,
\* dispatching stops and the run ends with the outcome of an external
\* cancellation, whether or not the caller cancelled ctx.
C18_TimeoutEndsRunAsCancelled ==
  (Returned /\ timeoutPhase = "dispatching") => ret = "ctxErr"

\* the page kind an article was built from, known by its title
ExpectedTags(k) ==
  {ToLower(k.kw[n]) : n \in 1..Len(k.kw)} \cup {ToLower(k.pft[n]) : n \in 1..Len(k.pft)}

\* C19: the tags stored with an article are the union of the page's keywords
\* meta values and its product/feature-tag meta values, each trimmed and
\* lower-cased, with empty entries dropped.
C19_TagsAreLowercasedUnion ==
  \A a \in articles, k \in PageKinds :
    a.name = k.title => {a.tags[n] : n \in 1..Len(a.tags)} = ExpectedTags(k)

\* C20: the key under which the mapper registers a navigation item starts
\* with the default category name, followed by the item's list-item ancestors
\* from outermost to innermost and by the item's own text.
C20_DefaultCategoryComesFirst ==
  mapper.st = "walk" => Head(mapper.pathParts) = DefaultCategory

\* C21: for every finite navigation document MapCategoryStructure terminates:
\* the upward ancestor walk started for a list item ends after finitely many
\* steps, and the mapper returns (an index or an error).
Mapping == pc \in {"start", "mapVisit", "mapWait"}

C21_MappingTerminates ==
  /\ (mapper.st = "walk") ~> (mapper.st # "walk")
  /\ Mapping ~> ~Mapping

\* C22: every article upserted during a run carries the id of a category that
\* is registered in the run's CategoryIndex and whose row was persisted
\* before the article was written.
C22_ArticleCategoryRegisteredAndPersisted ==
  \A a \in articles :
    /\ \E path \in DOMAIN cs : cs[path] = a.category_id
    /\ \E c \in categories : c.id = a.category_id

C22_Witness ==
  /\ articles # {}
  /\ \E a \in articles : \E c \in categories :
       c.id = a.category_id /\ cs[DefaultCategory] = c.id

\* C23: once Crawl has returned nil (the completed outcome), no request of
\* the run is queued, being fetched or in its handlers, and no article is
\* upserted from then on.
C23_CompletedMeansQuiescent ==
  [][(Returned /\ ret = "nil")
       => /\ Outstanding = {}
          /\ Outstanding' = {}
          /\ articles' = articles
          /\ lastUpsert' = lastUpsert]_vars

\* Crawl returned nil after pages were fetched and an article was stored
C23_Witness ==
  /\ pc = "reported" /\ ret = "nil"
  /\ Len(sitemap) >= 2
  /\ \A i \in Entries : page[i].st \in {"done", "failed"}
  /\ articles # {}

UpsertInvoked(i) ==
  /\ page[i].st = "handling"
  /\ page'[i] # page[i]
  /\ PageComplete(i)

\* C27: for each fetched content page the article upsert is invoked at most
\* once, whichever content selectors the page matches.  Title and body are
\* the same for every invocation on a page, so an invocation that reaches the
\* upsert must be the first one the page gets.
C27_OneUpsertPerPage ==
  [][\A i \in 1..MaxUrls :
       UpsertInvoked(i) => page[i].todo = Len(page[i].kind.sel)]_vars

MaxJobs == 1              \* job records ever created
MaxTime == 3              \* last instant of the clock
MaxConcurrentCrawls == 1  \* largest cfg.Crawler.MaxConcurrentCrawls tried

JobIds == 1..MaxJobs
RunIds == 1..(MaxJobs + MaxConcurrentCrawls)

\* models.CrawlerConfig, as far as the run and the scheduler use it; settings
\* stands for the columns a run only copies (product, sitemap_url, ...)
NoCfg == [status |-> "", errors |-> <<>>, lastRun |-> 0, mapURL |-> "",
          settings |-> ""]

NoRun == [st |-> "free", job |-> 0, origin |-> "none", err |-> "none",
          cfg |-> NoCfg, outer |-> NoCfg]

NoRow == [exists |-> FALSE, cfg |-> NoCfg]

NoRows == [j \in JobIds |-> NoRow]

NoRuns == [r \in RunIds |-> NoRun]

IdleSched == [st |-> "idle", list |-> <<>>, i |-> 0]

\* the variable `config` of a CreateCrawlerConfig request (status and errors),
\* which its goroutine's closure shares, until the response is serialized
NoResp == [st |-> "none", job |-> 0, status |-> "", errors |-> <<>>]

\* one Crawler, driven by a caller that may cancel ctx; the process is idle
InitCrawl ==
  /\ config \in {[MapURL |-> m] : m \in MapURLs}
  /\ report = "none"
  /\ pc = "start"
  /\ ret = "none"
  /\ ctxDone = FALSE
  /\ mapper = IdleMapper
  /\ cs = NewCategoryStructure
  /\ categories = {}
  /\ articles = {}
  /\ sitemap = <<>>
  /\ idx = 0
  /\ page = NoPages
  /\ lastUpsert = NoUpserts
  /\ cancelPhase = "none"
  /\ timeoutPhase = "none"
  /\ sitemapResp = "none"
  /\ jobErrors = <<>>
  /\ configs = NoRows
  /\ run = NoRuns
  /\ sched = IdleSched
  /\ now = 1
  /\ maxConcurrentCrawls = MaxConcurrentCrawls
  /\ createResp = NoResp
  /\ nextRun = [j \in JobIds |-> 0]

SpecCrawl == InitCrawl /\ [][NextCrawl]_vars

\* MapCategoryStructure runs on the caller's goroutine and the mapping
\* collector is synchronous: a step of the mapping that can be taken is taken
MapFairness ==
  /\ WF_vars(MapCreateRoot)
  /\ WF_vars(MapVisit)
  /\ WF_vars(MapItem)
  /\ WF_vars(MapWalk)
  /\ WF_vars(MapReturn)

SpecCrawlFair == InitCrawl /\ [][NextCrawl]_vars /\ MapFairness


(***************************************************************************)
(* Store table crawler_configs.                                            *)
(***************************************************************************)
crawlOnly == <<config, report, pc, ret, mapper, cs, categories, articles,
               sitemap, idx, page, lastUpsert, cancelPhase,
               jobErrors,
               sitemapResp,
               timeoutPhase>>

\* INSERT INTO crawler_configs
store_CreateCrawlerConfig(rows, j, c) ==
  [rows EXCEPT ![j] = [exists |-> TRUE, cfg |-> c]]

\* UPDATE crawler_configs SET <every column> WHERE id = $1; sql.ErrNoRows and
\* no change when there is no such row
store_UpdateCrawlerConfig(rows, j, c) ==
  IF rows[j].exists THEN [rows EXCEPT ![j].cfg = c] ELSE rows

\* SELECT ... ORDER BY created_at DESC: job ids follow the order of creation
ListCrawlerConfigs(rows) ==
  LET n == Cardinality({j \in JobIds : rows[j].exists})
  IN  [k \in 1..n |-> [job |-> n + 1 - k, status |-> rows[n + 1 - k].cfg.status]]

Active(r) == run[r].st # "free"

\* Goroutines are anonymous; the run a handler starts for job j is kept in
\* slot j (a job gets one such run, when it is created) and the scheduler's
\* runs in the slots after those, one per semaphore token.
SchedSlots == (MaxJobs + 1)..(MaxJobs + MaxConcurrentCrawls)

FreeSlot == CHOOSE r \in SchedSlots : ~Active(r) /\ \A q \in SchedSlots : q < r => Active(q)

NextJob == Cardinality({j \in JobIds : configs[j].exists}) + 1

\* mapUrl of the request bodies tried: unset
RequestMapURLs == {""}

(***************************************************************************)
(* API handlers.                                                           *)
(***************************************************************************)
\* handlers.go 191-236: insert the job as Running, start its run; the
\* response is still to be written.  Requests are handled one at a time.
CreateCrawlerConfig(m) ==
  /\ ~ctxDone
  /\ NextJob <= MaxJobs
  /\ createResp.st # "pending"
  /\ createResp' = [st |-> "pending", job |-> NextJob, status |-> "Running",
                    errors |-> <<>>]
  /\ LET c == [NoCfg EXCEPT !.status = "Running", !.mapURL = m, !.settings = "s1"]
     IN  /\ configs' = store_CreateCrawlerConfig(configs, NextJob, c)
         /\ run' = [run EXCEPT ![NextJob] =
                      [NoRun EXCEPT !.st = "rcStart", !.job = NextJob,
                                    !.origin = "create", !.cfg = c, !.outer = c]]
  /\ UNCHANGED <<sched, now, ctxDone>>
  /\ UNCHANGED nextRun
  /\ UNCHANGED maxConcurrentCrawls
  /\ UNCHANGED crawlOnly

\* handlers.go 238: c.JSON(http.StatusCreated, config) reads the variable the
\* goroutine writes at 226-229 with no synchronisation: of status and errors
\* it gets, each on its own, the value before or after the goroutine's write
CreateRespond ==
  /\ createResp.st = "pending"
  /\ \E s \in {"Running", createResp.status}, e \in {<<>>, createResp.errors} :
       createResp' = [createResp EXCEPT !.st = "sent", !.status = s, !.errors = e]
  /\ UNCHANGED <<configs, run, sched, now, ctxDone, nextRun>>
  /\ UNCHANGED maxConcurrentCrawls
  /\ UNCHANGED crawlOnly

\* handlers.go 293-334: the same under a new id
StartCrawl(m) ==
  /\ ~ctxDone
  /\ NextJob <= MaxJobs
  /\ LET c == [NoCfg EXCEPT !.status = "Running", !.mapURL = m, !.settings = "s1"]
     IN  /\ configs' = store_CreateCrawlerConfig(configs, NextJob, c)
         /\ run' = [run EXCEPT ![NextJob] =
                      [NoRun EXCEPT !.st = "rcStart", !.job = NextJob,
                                    !.origin = "start", !.cfg = c, !.outer = c]]
  /\ UNCHANGED <<sched, now, ctxDone>>
  /\ UNCHANGED nextRun
  /\ UNCHANGED createResp
  /\ UNCHANGED maxConcurrentCrawls
  /\ UNCHANGED crawlOnly

\* handlers.go 241-262: the request body replaces every column of the row
UpdateCrawlerConfig(j, body) ==
  /\ ~ctxDone
  /\ configs[j].exists
  /\ configs' = store_UpdateCrawlerConfig(configs, j, body)
  /\ configs' # configs
  /\ UNCHANGED <<run, sched, now, ctxDone>>
  /\ UNCHANGED nextRun
  /\ UNCHANGED createResp
  /\ UNCHANGED maxConcurrentCrawls
  /\ UNCHANGED crawlOnly

UpdateBodies ==
  {[NoCfg EXCEPT !.status = st, !.settings = "s2"] : st \in {"Running", "Stopped"}}

(***************************************************************************)
(* runCrawler (handlers.go 335-428) and the goroutine around it.           *)
(***************************************************************************)
\* The store rejects a write only where the caller branches on the error
\* (runCrawler 371-374); a failed write that is merely logged leaves the row
\* as it was and is not drawn.
DefaultMapURL == "https://kb/0HOME/Home.htm"

\* what MapCategoryStructure can return for a MapURL: Visit("") always fails
MapResults(mapURL) == IF mapURL = "" THEN {"err"} ELSE {"ok", "err"}

\* 336-374: logger, default MapURL, NewCrawler, status Running persisted
RunStart(r) ==
  /\ run[r].st = "rcStart"
  /\ \E loggerOk, dbOk \in BOOLEAN :
       LET c == [run[r].cfg EXCEPT
                   !.mapURL = IF @ = "" THEN DefaultMapURL ELSE @,
                   !.status = "Running"]
       IN  IF ~loggerOk
           THEN /\ run' = [run EXCEPT ![r].st = "outer", ![r].err = "logger"]
                /\ UNCHANGED configs
           ELSE IF dbOk
           THEN /\ run' = [run EXCEPT ![r].st = "map", ![r].cfg = c]
                /\ configs' = store_UpdateCrawlerConfig(configs, run[r].job, c)
           ELSE /\ run' = [run EXCEPT ![r].st = "outer", ![r].cfg = c,
                                      ![r].err = "update"]
                /\ UNCHANGED configs
  /\ UNCHANGED <<sched, now, ctxDone>>
  /\ UNCHANGED nextRun
  /\ UNCHANGED createResp
  /\ UNCHANGED maxConcurrentCrawls
  /\ UNCHANGED crawlOnly

\* 376-385: MapCategoryStructure(context.Background()) has returned
RunMap(r) ==
  /\ run[r].st = "map"
  /\ \E res \in MapResults(run[r].cfg.mapURL) :
       IF res = "ok"
       THEN /\ run' = [run EXCEPT ![r].st = "crawl"]
            /\ UNCHANGED configs
       ELSE LET c == [run[r].cfg EXCEPT !.status = "Error",
                                        !.errors = Append(@, "map")]
            IN  /\ run' = [run EXCEPT ![r].st = "outer", ![r].cfg = c,
                                      ![r].err = "map"]
                /\ configs' = store_UpdateCrawlerConfig(configs, run[r].job, c)
  /\ UNCHANGED <<sched, now, ctxDone>>
  /\ UNCHANGED nextRun
  /\ UNCHANGED createResp
  /\ UNCHANGED maxConcurrentCrawls
  /\ UNCHANGED crawlOnly

\* config.CrawlInterval of the jobs, in ticks of the scheduler
CrawlInterval == 2

\* 387-427: Crawl(context.Background()) has returned; final row of runCrawler.
\* 399-403: on success config.NextRun = now + interval is set in the copy;
\* UpdateCrawlerConfig has no next_run column, so the row does not get it
RunCrawl(r) ==
  /\ run[r].st = "crawl"
  /\ \E res \in {"nil", "sitemapErr"} :
       LET c == IF res # "nil"
                THEN [run[r].cfg EXCEPT !.status = "Error",
                                        !.errors = Append(@, "crawl")]
                ELSE [run[r].cfg EXCEPT !.status = "Completed", !.lastRun = now]
       IN  /\ run' = [run EXCEPT ![r].st = "outer", ![r].cfg = c,
                                 ![r].err = IF res = "nil" THEN "none" ELSE "crawl"]
           /\ configs' = store_UpdateCrawlerConfig(configs, run[r].job, c)
           /\ nextRun' = IF res = "nil"
                         THEN [nextRun EXCEPT ![run[r].job] = now + CrawlInterval]
                         ELSE nextRun
  /\ UNCHANGED <<sched, now, ctxDone>>
  /\ UNCHANGED createResp
  /\ UNCHANGED maxConcurrentCrawls
  /\ UNCHANGED crawlOnly

\* the status the goroutine writes when runCrawler returned nil:
\* CreateCrawlerConfig 224-230, StartCrawl 317-325
FinalStatus(origin) == IF origin = "create" THEN "Completed" ELSE "Stopped"

\* 224-235 / 317-330: the goroutine's config (its own copy in StartCrawl, the
\* handler's variable in CreateCrawlerConfig) gets the final status and is
\* written over the row
RunOuter(r) ==
  /\ run[r].st = "outer"
  /\ LET c == IF run[r].err # "none"
              THEN [run[r].outer EXCEPT !.status = "Error",
                                        !.errors = Append(@, run[r].err)]
              ELSE [run[r].outer EXCEPT !.status = FinalStatus(run[r].origin)]
     IN  /\ run' = [run EXCEPT ![r] = NoRun]
         /\ configs' = store_UpdateCrawlerConfig(configs, run[r].job, c)
         /\ createResp' =
              IF /\ run[r].origin = "create"
                 /\ createResp.st = "pending"
                 /\ createResp.job = run[r].job
              THEN [createResp EXCEPT !.status = c.status, !.errors = c.errors]
              ELSE createResp
  /\ UNCHANGED <<sched, now, ctxDone>>
  /\ UNCHANGED nextRun
  /\ UNCHANGED maxConcurrentCrawls
  /\ UNCHANGED crawlOnly


(***************************************************************************)
(* The scheduler: main's ticker goroutine and runAllCrawls (main.go).      *)
(***************************************************************************)
SchedRuns == {r \in RunIds : Active(r) /\ run[r].origin = "sched"}

\* main.go 46-56, 70-83: the ticker fires at the next instant; runAllCrawls
\* lists the jobs
Tick ==
  /\ sched.st = "idle"
  /\ ~ctxDone
  /\ now < MaxTime
  /\ now' = now + 1
  /\ sched' = [st |-> "loop", list |-> ListCrawlerConfigs(configs), i |-> 1]
  /\ UNCHANGED <<configs, run, ctxDone>>
  /\ UNCHANGED nextRun
  /\ UNCHANGED createResp
  /\ UNCHANGED maxConcurrentCrawls
  /\ UNCHANGED crawlOnly

\* main.go 89-135: one iteration over the listed configs.  Rows come from
\* ListCrawlerConfigs, which selects no next_run column: NextRun is nil.
\* `semaphore <- struct{}{}` (106) goes through when fewer goroutines hold a
\* slot than the channel's capacity maxConcurrentCrawls, and blocks otherwise.
SchedLoop ==
  /\ sched.st = "loop"
  /\ sched.i <= Len(sched.list)
  /\ LET c == sched.list[sched.i]
     IN  IF c.status = "Running"
         THEN UNCHANGED run
         ELSE /\ Cardinality(SchedRuns) < maxConcurrentCrawls
              /\ run' = [run EXCEPT ![FreeSlot] =
                           [NoRun EXCEPT !.st = "scMap", !.job = c.job,
                                         !.origin = "sched"]]
  /\ sched' = [sched EXCEPT !.i = @ + 1]
  /\ UNCHANGED <<configs, now, ctxDone>>
  /\ UNCHANGED nextRun
  /\ UNCHANGED createResp
  /\ UNCHANGED maxConcurrentCrawls
  /\ UNCHANGED crawlOnly

\* main.go 137-138: wg.Wait() has returned
SchedWait ==
  /\ sched.st = "loop"
  /\ sched.i > Len(sched.list)
  /\ SchedRuns = {}
  /\ sched' = IdleSched
  /\ UNCHANGED <<configs, run, now, ctxDone>>
  /\ UNCHANGED nextRun
  /\ UNCHANGED createResp
  /\ UNCHANGED maxConcurrentCrawls
  /\ UNCHANGED crawlOnly

\* main.go 108-134: the goroutine of one job.  Its CrawlerConfig is built
\* without MapURL; it writes nothing to the job's row and gives its semaphore
\* slot back when it returns.
SchedRun(r) ==
  /\ run[r].origin = "sched"
  /\ run[r].st \in {"scMap", "scCrawl"}
  /\ IF run[r].st = "scMap"
     THEN \E res \in MapResults("") :
            run' = [run EXCEPT ![r] = IF res = "ok"
                                      THEN [@ EXCEPT !.st = "scCrawl"]
                                      ELSE NoRun]
     ELSE run' = [run EXCEPT ![r] = NoRun]
  /\ UNCHANGED <<configs, sched, now, ctxDone>>
  /\ UNCHANGED nextRun
  /\ UNCHANGED createResp
  /\ UNCHANGED maxConcurrentCrawls
  /\ UNCHANGED crawlOnly

\* main.go 140-147: SIGINT/SIGTERM cancels ctx
Shutdown ==
  /\ ~ctxDone
  /\ ctxDone' = TRUE
  /\ UNCHANGED <<configs, run, sched, now>>
  /\ UNCHANGED nextRun
  /\ UNCHANGED createResp
  /\ UNCHANGED maxConcurrentCrawls
  /\ UNCHANGED crawlOnly

\* the process after main has started the ticker and the API server
Init ==
  /\ config = [MapURL |-> ""]
  /\ report = "none"
  /\ pc = "start"
  /\ ret = "none"
  /\ ctxDone = FALSE
  /\ mapper = IdleMapper
  /\ cs = NewCategoryStructure
  /\ categories = {}
  /\ articles = {}
  /\ sitemap = <<>>
  /\ idx = 0
  /\ page = NoPages
  /\ lastUpsert = NoUpserts
  /\ cancelPhase = "none"
  /\ timeoutPhase = "none"
  /\ sitemapResp = "none"
  /\ jobErrors = <<>>
  /\ configs = NoRows
  /\ run = NoRuns
  /\ sched = IdleSched
  /\ now = 1
  /\ maxConcurrentCrawls \in 0..MaxConcurrentCrawls
  /\ createResp = NoResp
  /\ nextRun = [j \in JobIds |-> 0]

Next ==
  \/ \E m \in RequestMapURLs : CreateCrawlerConfig(m)
  \/ CreateRespond
  \/ \E m \in RequestMapURLs : StartCrawl(m)
  \/ \E j \in JobIds, body \in UpdateBodies : UpdateCrawlerConfig(j, body)
  \/ \E r \in RunIds : RunStart(r)
  \/ \E r \in RunIds : RunMap(r)
  \/ \E r \in RunIds : RunCrawl(r)
  \/ \E r \in RunIds : RunOuter(r)
  \/ Tick
  \/ SchedLoop
  \/ SchedWait
  \/ \E r \in RunIds : SchedRun(r)
  \/ Shutdown

Spec == Init /\ [][Next]_vars

\* the ticker goroutine inside runAllCrawls and the goroutines it started
\* are scheduled: each takes a step it can take, and every run terminates
SchedFairness ==
  /\ WF_vars(SchedLoop)
  /\ WF_vars(SchedWait)
  /\ \A r \in RunIds : WF_vars(SchedRun(r))

SpecFair == Init /\ [][Next]_vars /\ SchedFairness

(***************************************************************************)
(* Properties of the process (checked under Spec).                         *)
(***************************************************************************)
ActiveRuns == {r \in RunIds : Active(r)}

\* C2: at every moment at most one crawl run is active for a job.
C2_AtMostOneRunPerJob ==
  \A j \in JobIds : Cardinality({r \in ActiveRuns : run[r].job = j}) <= 1

\* C8: at every moment the number of crawl runs in progress, started by the
\* scheduler or through the API, is at most MaxConcurrentCrawls.
C8_RunsAtMostMaxConcurrentCrawls == Cardinality(ActiveRuns) <= maxConcurrentCrawls

\* a run goroutine of job j returns in this step; failed tells how it ended
RunEnds(r, j, failed) ==
  /\ Active(r)
  /\ run[r].job = j
  /\ run'[r].st = "free"
  /\ failed = IF run[r].origin = "sched" THEN run[r].st = "scMap"
                                         ELSE run[r].err # "none"

\* C9: after any run ends, however it was started, the job's persisted status
\* is Completed if the run succeeded and Error if it failed.
C9_FinalStatusCompletedOrError ==
  [][\A r \in RunIds, j \in JobIds, failed \in BOOLEAN :
       RunEnds(r, j, failed)
         => configs'[j].cfg.status = (IF failed THEN "Error" ELSE "Completed")]_vars

\* C16: after a run ends, whether the job ends in Completed or in Error, the
\* job record's persisted lastRun equals that run's end time.
C16_LastRunIsEndTime ==
  [][\A r \in RunIds, j \in JobIds, failed \in BOOLEAN :
       RunEnds(r, j, failed) => configs'[j].cfg.lastRun = now]_vars

\* the MapURL of the CrawlerConfig handed to NewCrawler by the goroutine in
\* slot r: runCrawler 360-367 copies config.MapURL, runAllCrawls 115-121 sets
\* no MapURL
CrawlerMapURL(r) == IF run[r].origin = "sched" THEN "" ELSE run[r].cfg.mapURL

\* C17: whenever a run is started for a job whose map URL is empty, by the API
\* or by the scheduler, the navigation page is fetched from the default
\* derived from the sitemap URL.
C17_EmptyMapURLUsesDefault ==
  \A r \in RunIds :
    run[r].st \in {"map", "scMap"} => CrawlerMapURL(r) = DefaultMapURL

\* C25: a configuration change written through UpdateCrawlerConfig while a
\* run of the job is in progress is still in the job record after the run
\* has finished and written its final status.  Only UpdateCrawlerConfig
\* writes the settings "s2", and a job's API run is in progress from the
\* moment the row exists.
C25_UpdateSurvivesRunEnd ==
  [][\A r \in RunIds, j \in JobIds, failed \in BOOLEAN :
       (RunEnds(r, j, failed) /\ run[r].origin # "sched"
          /\ configs[j].cfg.settings = "s2")
         => configs'[j].cfg.settings = "s2"]_vars

\* C26: the scheduler never starts a run of a job before the nextRun that the
\* job's previous successful run computed (its end time + interval): a tick
\* that comes earlier skips the job.  Stated for a job whose previous run has
\* ended.
C26_NoRunBeforeNextRun ==
  [][\A r \in RunIds :
       (/\ run[r].st = "free"
        /\ run'[r].origin = "sched"
        /\ \A q \in RunIds : Active(q) => run[q].job # run'[r].job)
         => now >= nextRun[run'[r].job]]_vars

\* C29: the response to a successful CreateCrawlerConfig request reports the
\* job with status Running and an empty error list, under every interleaving
\* with the run goroutine the request starts.
C29_CreateResponseIsRunning ==
  createResp.st = "sent"
    => createResp.status = "Running" /\ createResp.errors = <<>>

\* C30: for every configured maximum of concurrent crawls, 0 included, and
\* every list of jobs, runAllCrawls eventually returns when every run it
\* starts terminates: acquiring a semaphore slot never blocks forever.
C30_RunAllCrawlsReturns ==
  (sched.st = "loop") ~> (sched.st = "idle")

====
